---- MODULE Spec2Model ----
(***************************************************************************)
(* Model of the web crawler tool of pro-rag-agent                          *)
(* (src/src/mastra/tools/crawler-tool.ts): the in-memory variant           *)
(* (lines 1-170) and the remote-sink variant (lines 171-397).              *)
(*                                                                         *)
(* One crawl invocation (crawlerTool.execute) is a set of cooperating      *)
(* async crawlPage tasks on a single-threaded event loop.  Every action    *)
(* below is one run-to-completion step: the resumption of one awaited      *)
(* promise followed by all the synchronous code up to the next await.      *)
(* The outcome of every awaited external call (puppeteer, the Convex       *)
(* mutation) is an input of the step: it fulfils or it rejects.            *)
(*                                                                         *)
(* processPendingDocumentsTool.execute                                     *)
(* (src/src/mastra/tools/process_pending_documents_tool.ts) is modelled    *)
(* the same way, as a separate invocation (ProcessSpec).                   *)
(***************************************************************************)
EXTENDS Integers, Sequences, FiniteSets, Bags, TLC

VARIABLES
    variant,      \* "memory" (lines 1-170) or "remote" (lines 171-397)
    startUrl,     \* context.startUrl, as given by the caller
    maxDepth,     \* context.maxDepth
    convexUrl,    \* process.env.CONVEX_URL is set
    baseDomain,   \* const baseDomain = getDomain(startUrl)
    execPc,       \* position of execute
    hardError,    \* the error execute rejected with, "" if none
    summary,      \* the summary execute returned
    browser,      \* the shared browsing session: "none", "open", "closed"
    visited,      \* visited: Set<string>
    results,      \* results: CrawlResult[] (in-memory variant), urls only
    errors,       \* errors: CrawlError[], urls only
    sinkCalls,    \* bag of the urls passed to ctx.mutation('crawled_pages:add')
    sinkStored,   \* bag of the urls whose mutation fulfilled (the remote table)
    tasks,        \* the crawlPage calls that passed line 65, in call order
    failures,     \* number of external calls that rejected so far
    sessionLog,   \* the calls made on the session: "launch", "close"
    \* processPendingDocumentsTool.execute
    procPc,               \* position of execute
    pendingPages,         \* pendingPages: per page, the number of chunks
                          \* splitText makes of its text
    pageIdx,              \* position of the for-of loop over pendingPages
    chunkIdx,             \* position of the for-of loop over chunks
    totalProcessedPages,  \* let totalProcessedPages
    totalStoredChunks,    \* let totalStoredChunks
    documents,            \* the documents:add mutations that fulfilled,
                          \* as <<page, chunk>>
    pageStatus,           \* the updateStatus mutations that fulfilled,
                          \* as <<page, status>>
    attempted,            \* the pages whose try block was entered
    procFailures,         \* number of calls that rejected so far
    procResult            \* the value execute returned

\* the state of crawlerTool.execute
crawlVars == <<variant, startUrl, maxDepth, convexUrl, baseDomain, execPc,
               hardError, summary, browser, visited, results, errors,
               sinkCalls, sinkStored, tasks, failures, sessionLog>>

\* the state of processPendingDocumentsTool.execute
procVars == <<procPc, pendingPages, pageIdx, chunkIdx, totalProcessedPages,
              totalStoredChunks, documents, pageStatus, attempted,
              procFailures, procResult>>

vars == <<crawlVars, procVars>>

-----------------------------------------------------------------------------
(* Bounds of the model *)

\* maxDepth ranges over 0..MaxDepthBound (the schema allows 0..5)
MaxDepthBound == 2

\* at most this many external calls reject during one invocation
MaxFailures == 2

\* the pending-page query returns at most this many pages
MaxPages == 2

\* splitText makes at most this many chunks of a page's text
MaxChunks == 2

\* at most this many calls reject during one run of
\* processPendingDocumentsTool.execute
MaxProcFailures == 2

\* largest maxDepth of the runs on the part of the site where a page is
\* linked through a short and a long path
ScheduleMaxDepth == 3

(* Program constants *)

\* const batchSize = 3
batchSize == 3

-----------------------------------------------------------------------------
(* URLs.  A URL text is modelled by its parts; host is the sequence of     *)
(* its dot-separated labels.  proto "" is a text `new URL` cannot parse,   *)
(* proto "rel" is a relative reference (only meaningful as an href).       *)

Url(proto, host, path, frag) ==
    [proto |-> proto, host |-> host, path |-> path, frag |-> frag]

ExampleCom == <<"example", "com">>
WwwExampleCom == <<"www", "example", "com">>
ShopExampleCom == <<"shop", "example", "com">>
OtherCom == <<"other", "com">>

\* new URL(url) succeeds
Parses(url) == url.proto \in {"http:", "https:", "mailto:"}

\* new URL(url).href: an empty path of an http(s) URL becomes "/", the
\* fragment is kept
Href(url) ==
    IF url.proto \in {"http:", "https:"} /\ url.path = ""
    THEN [url EXCEPT !.path = "/"]
    ELSE url

\* new URL(href, baseUrl): a relative reference takes scheme and host of
\* the base
Resolve(href, baseUrl) ==
    IF href.proto = "rel"
    THEN Href([href EXCEPT !.proto = baseUrl.proto, !.host = baseUrl.host])
    ELSE Href(href)

\* url.href.split('#')[0]
StripFragment(url) == [url EXCEPT !.frag = ""]

\* hostname.replace(/^www\./, '')
StripWww(host) ==
    IF Len(host) > 1 /\ host[1] = "www" THEN Tail(host) ELSE host

\* getDomain: the empty string is the empty sequence of labels
getDomain(url) ==
    IF Parses(url) THEN StripWww(url.host) ELSE <<>>

-----------------------------------------------------------------------------
(* The web site being crawled: the rendered HTML of every page, as the     *)
(* sequence of its body nodes and the sequence of its anchors' hrefs.      *)

Node(tag, text) == [tag |-> tag, text |-> text]

Rel(path, frag) == Url("rel", <<>>, path, frag)

NoHtml == [body |-> <<>>, anchors |-> <<>>]

Html(url) ==
    IF StripWww(url.host) # ExampleCom THEN
        [body |-> <<Node("p", <<"elsewhere">>)>>, anchors |-> <<>>]
    ELSE CASE url.path = "/" ->
        [body |-> <<Node("nav", <<"menu">>), Node("p", <<"home">>)>>,
         anchors |-> <<Rel("/a", ""), Rel("/b", "top"),
                       Url("https:", OtherCom, "/x", ""),
                       Rel("/c", ""), Rel("/b", ""),
                       Url("mailto:", <<>>, "me", ""),
                       Rel("/d", ""),
                       Url("", <<>>, "", ""),
                       Url("https:", ShopExampleCom, "/s", "")>>]
      [] url.path = "/a" ->
        [body |-> <<Node("p", <<"page", "a">>)>>,
         anchors |-> <<Rel("/", ""),
                       Url("https:", WwwExampleCom, "/e", "")>>]
      [] url.path = "/b" ->
        [body |-> <<Node("script", <<"code">>), Node("p", <<>>)>>,
         anchors |-> <<Rel("/a", "")>>]
      [] url.path = "/c" ->
        [body |-> <<Node("p", <<"page", "c">>)>>,
         anchors |-> <<>>]
      [] url.path = "/d" ->
        [body |-> <<Node("p", <<"page", "d">>)>>,
         anchors |-> <<Url("https:", WwwExampleCom, "/e", "x")>>]
      [] url.path = "/e" ->
        [body |-> <<Node("p", <<"page", "e">>)>>,
         anchors |-> <<Url("https:", ExampleCom, "/", "")>>]
      [] url.path = "/p" ->
        [body |-> <<Node("p", <<"page", "p">>)>>,
         anchors |-> <<Rel("/q", ""), Rel("/p", "self"), Rel("/r", "")>>]
      [] url.path = "/q" ->
        [body |-> <<Node("p", <<"page", "q">>)>>,
         anchors |-> <<Rel("/p", ""), Rel("/r", ""), Rel("/t", "")>>]
      [] url.path = "/r" ->
        [body |-> <<Node("style", <<"css">>)>>,
         anchors |-> <<Rel("/t", ""), Rel("/p", "")>>]
      [] url.path = "/t" ->
        [body |-> <<Node("p", <<"page", "t">>)>>,
         anchors |-> <<Rel("/q", "")>>]
      [] url.path = "/u" ->
        [body |-> <<Node("p", <<"page", "u">>)>>,
         anchors |-> <<Rel("/v", ""), Rel("/w", "")>>]
      [] url.path = "/v" ->
        [body |-> <<Node("p", <<"page", "v">>)>>,
         anchors |-> <<Rel("/x", "")>>]
      [] url.path = "/w" ->
        [body |-> <<Node("p", <<"page", "w">>)>>,
         anchors |-> <<Rel("/y", "")>>]
      [] url.path = "/x" ->
        [body |-> <<Node("p", <<"page", "x">>)>>,
         anchors |-> <<Rel("/z", "")>>]
      [] url.path = "/y" ->
        [body |-> <<Node("p", <<"page", "y">>)>>,
         anchors |-> <<Rel("/x", "")>>]
      [] url.path = "/z" ->
        [body |-> <<Node("p", <<"page", "z">>)>>,
         anchors |-> <<>>]
      [] OTHER -> NoHtml

\* the elements cleanText removes
RemovedTags == {"script", "style", "noscript", "svg", "header", "footer", "nav"}

RECURSIVE cleanTextFrom(_, _)
cleanTextFrom(body, k) ==
    IF k > Len(body) THEN <<>>
    ELSE IF body[k].tag \in RemovedTags THEN cleanTextFrom(body, k + 1)
    ELSE body[k].text \o cleanTextFrom(body, k + 1)

\* cleanText: the words of the visible text, in order
cleanText(html) == cleanTextFrom(html.body, 1)

InSeq(x, s) == \E k \in 1..Len(s) : s[k] = x

RECURSIVE extractLinksFrom(_, _, _, _)
extractLinksFrom(anchors, baseUrl, k, links) ==
    IF k > Len(anchors) THEN links
    ELSE LET href == anchors[k]
             url  == Resolve(href, baseUrl)
         IN  IF (href.proto = "rel" \/ Parses(href))
                /\ url.proto \in {"http:", "https:"}
                /\ ~InSeq(StripFragment(url), links)
             THEN CHOOSE r \in
                    { extractLinksFrom(anchors, baseUrl, k + 1, next) :
                        next \in {Append(links, StripFragment(url))} } :
                    TRUE
             ELSE extractLinksFrom(anchors, baseUrl, k + 1, links)

\* extractLinks: http(s) links without fragment, first occurrences in order
extractLinks(html, baseUrl) == extractLinksFrom(html.anchors, baseUrl, 1, <<>>)

-----------------------------------------------------------------------------
(* The inputs of one invocation *)

Variants == {"memory", "remote"}

NotAUrl == Url("", <<>>, "not a url", "")

StartUrls ==
    { Url("https:", ExampleCom, "", ""),
      NotAUrl }

NoSummary == [totalPages |-> 0, totalErrors |-> 0, crawlDepth |-> 0]

\* the value of procResult before processPendingDocumentsTool.execute
\* returns
NoResult == [totalProcessedPages |-> -1, totalStoredChunks |-> -1]

\* the start URLs of the runs on the small cyclic part of the site
\* (/p -> /q, /r; /q -> /p, /r, /t; /r -> /t, /p; /t -> /q)
CycleStartUrls ==
    { Url("https:", ExampleCom, "/p", ""),
      NotAUrl }

\* the start URLs of the runs whose start URL carries a fragment
FragmentStartUrls ==
    { Url("https:", ExampleCom, "/p", "top"),
      NotAUrl }

\* the start URLs of the runs on the part of the site where /x is linked
\* from /v (distance 2) and from /y (distance 3):
\* /u -> /v, /w; /v -> /x; /w -> /y; /y -> /x; /x -> /z
ScheduleStartUrls ==
    { Url("https:", ExampleCom, "/u", ""),
      NotAUrl }

\* the state before execute runs, for a start URL among starts and a
\* maxDepth among depths
InitFor(starts, depths) ==
    /\ variant \in Variants
    /\ startUrl \in starts
    /\ maxDepth \in depths
    /\ convexUrl \in (IF variant = "remote" THEN BOOLEAN ELSE {TRUE})
    /\ baseDomain = <<>>
    /\ execPc = "start"
    /\ hardError = ""
    /\ summary = NoSummary
    /\ browser = "none"
    /\ visited = {}
    /\ results = <<>>
    /\ errors = <<>>
    /\ sinkCalls = EmptyBag
    /\ sinkStored = EmptyBag
    /\ tasks = <<>>
    /\ failures = 0
    /\ sessionLog = <<>>
    /\ procPc = "start"
    /\ pendingPages = <<>>
    /\ pageIdx = 0
    /\ chunkIdx = 0
    /\ totalProcessedPages = 0
    /\ totalStoredChunks = 0
    /\ documents = <<>>
    /\ pageStatus = <<>>
    /\ attempted = <<>>
    /\ procFailures = 0
    /\ procResult = NoResult

\* the same, for the depths 0..MaxDepthBound
InitWith(starts) == InitFor(starts, 0..MaxDepthBound)

Init == InitWith(StartUrls)

-----------------------------------------------------------------------------
(* crawlPage, lines 57-65 / 286-294: the synchronous prefix of a call *)

\* a crawlPage call that passed line 65 and awaits browser.newPage();
\* parent is the index of the calling task (0 for execute), idx the
\* position of the link in the parent's links (0 for the start URL),
\* threwAt the awaited step whose rejection entered the catch block
NewTask(normalizedUrl, currentDepth, parent, idx) ==
    [url |-> normalizedUrl, depth |-> currentDepth, parent |-> parent,
     idx |-> idx, pc |-> "newPage", page |-> "none", closeCalls |-> 0,
     i |-> 0, nLinks |-> 0, threwAt |-> ""]

\* currentDepth > maxDepth
DepthExceeded(currentDepth, max) == currentDepth > max

\* a duplicate check that never finds the URL
AlreadyVisitedNever(normalizedUrl, vis) == FALSE

\* a duplicate check that misses the URLs whose fetch is still in flight
AlreadyVisitedFetchedOnly(normalizedUrl, vis) ==
    /\ normalizedUrl \in vis
    /\ \A t \in 1..Len(tasks) :
          tasks[t].url = normalizedUrl => tasks[t].pc \notin {"newPage", "fetch"}

\* visited.has(normalizedUrl)
AlreadyVisited(normalizedUrl, vis) == normalizedUrl \in vis

\* a scope check that also accepts the subdomains of baseDomain
InScopeSubdomain(normalizedUrl, base) ==
    LET d == getDomain(normalizedUrl)
    IN  /\ Len(d) >= Len(base)
        /\ SubSeq(d, Len(d) - Len(base) + 1, Len(d)) = base

\* domain === baseDomain
InScope(normalizedUrl, base) == getDomain(normalizedUrl) = base

\* a crawlPage that goes on to the fetch without visited.add(normalizedUrl)
crawlPageEnterNoInsert(url, parent, idx, currentDepth, st) ==
    LET normalizedUrl == Href(url)
    IN  IF DepthExceeded(currentDepth, maxDepth)
           \/ AlreadyVisited(normalizedUrl, st.visited)
        THEN st
        ELSE IF ~InScope(normalizedUrl, baseDomain)
        THEN st
        ELSE [visited |-> st.visited,
              tasks   |-> Append(st.tasks,
                                 NewTask(normalizedUrl, currentDepth, parent, idx))]

\* one call crawlPage(browser, url, visited, baseDomain, currentDepth, ...)
\* up to its first await; st is [visited, tasks]
crawlPageEnter(url, parent, idx, currentDepth, st) ==
    LET normalizedUrl == Href(url)
    IN  IF DepthExceeded(currentDepth, maxDepth)
           \/ AlreadyVisited(normalizedUrl, st.visited)
        THEN st
        ELSE IF ~InScope(normalizedUrl, baseDomain)
        THEN st
        ELSE [visited |-> st.visited \cup {normalizedUrl},
              tasks   |-> Append(st.tasks,
                                 NewTask(normalizedUrl, currentDepth, parent, idx))]

\* links.map(link => crawlPage(..., link, ..., currentDepth + 1, ...)):
\* every call runs to its first await, in link order (the state after a
\* call is bound to `next`, so that it is evaluated once)
RECURSIVE crawlPromises(_, _, _, _, _)
crawlPromises(links, k, parent, currentDepth, st) ==
    IF k > Len(links) THEN st
    ELSE CHOOSE r \in
            { crawlPromises(links, k + 1, parent, currentDepth, next) :
                next \in {crawlPageEnter(links[k], parent, k,
                                         currentDepth + 1, st)} } :
            TRUE

\* a fan-out guard that is off by one
ShouldFanOutInclusive(currentDepth, max) == currentDepth <= max

\* if (currentDepth < maxDepth)
ShouldFanOut(currentDepth, max) == currentDepth < max

\* lines 92-106 / 322-336 up to the first await of the batch loop, run by
\* task t; st is [visited, tasks]
FanOut(t, st) ==
    LET tk == st.tasks[t]
    IN  IF ShouldFanOut(tk.depth, maxDepth)
        THEN LET links == extractLinks(Html(tk.url), tk.url)
                 st2   == crawlPromises(links, 1, t, tk.depth, st)
             IN  [st2 EXCEPT !.tasks[t].nLinks = Len(links),
                             !.tasks[t].pc =
                                 IF Len(links) > 0 THEN "allSettled"
                                                   ELSE "fulfilled"]
        ELSE [st EXCEPT !.tasks[t].pc = "fulfilled"]

\* a wait that only notices the promises that fulfilled
SettledFulfilledOnly(tk) == tk.pc = "fulfilled"

\* a promise has settled: Promise.allSettled and await go on
Settled(tk) == tk.pc \in {"fulfilled", "rejected"}

\* the members of crawlPromises.slice(i, i + batchSize) have all settled;
\* a call that returned at line 59 or 63 is fulfilled from the start
BatchSettled(t, i) ==
    \A c \in 1..Len(tasks) :
        (tasks[c].parent = t /\ tasks[c].idx > i /\ tasks[c].idx <= i + batchSize)
            => Settled(tasks[c])

-----------------------------------------------------------------------------
(* crawlerTool.execute, lines 139-169 / 365-396 *)

\* a precondition check that lets the empty domain through
PreconditionNeverFails(base) == FALSE

\* if (!baseDomain)
PreconditionFails(base) == base = <<>>

\* lines 140-148 / 366-373: throw new Error('Invalid start URL provided')
ExecuteInvalidStart ==
    /\ execPc = "start"
    /\ PreconditionFails(getDomain(startUrl))
    /\ baseDomain' = getDomain(startUrl)
    /\ execPc' = "rejected"
    /\ hardError' = "Invalid start URL provided"
    /\ UNCHANGED <<variant, startUrl, maxDepth, convexUrl, summary, browser,
                   visited, results, errors, sinkCalls, sinkStored, tasks,
                   failures,
                   sessionLog, procVars>>

\* lines 376, 227-233: getConvexClient() throws without CONVEX_URL
ExecuteNoConvexUrl ==
    /\ execPc = "start"
    /\ ~PreconditionFails(getDomain(startUrl))
    /\ variant = "remote"
    /\ ~convexUrl
    /\ baseDomain' = getDomain(startUrl)
    /\ execPc' = "rejected"
    /\ hardError' = "CONVEX_URL environment variable is required"
    /\ UNCHANGED <<variant, startUrl, maxDepth, convexUrl, summary, browser,
                   visited, results, errors, sinkCalls, sinkStored, tasks,
                   failures,
                   sessionLog, procVars>>

\* lines 140-151 / 366-379: the call of puppeteer.launch()
ExecuteLaunch ==
    /\ execPc = "start"
    /\ ~PreconditionFails(getDomain(startUrl))
    /\ variant = "remote" => convexUrl
    /\ baseDomain' = getDomain(startUrl)
    /\ execPc' = "launch"
    /\ browser' = "launching"
    /\ sessionLog' = Append(sessionLog, "launch")
    /\ UNCHANGED <<variant, startUrl, maxDepth, convexUrl, hardError, summary,
                   visited, results, errors, sinkCalls, sinkStored, tasks,
                   failures, procVars>>

\* puppeteer.launch() fulfils; line 154 / 382 calls crawlPage on startUrl,
\* which runs to its first await
LaunchOk ==
    /\ execPc = "launch"
    /\ LET st == crawlPageEnter(startUrl, 0, 0, 0,
                                [visited |-> visited, tasks |-> tasks])
       IN  /\ visited' = st.visited
           /\ tasks' = st.tasks
    /\ browser' = "open"
    /\ execPc' = "crawl"
    /\ UNCHANGED <<variant, startUrl, maxDepth, convexUrl, baseDomain,
                   hardError, summary, results, errors, sinkCalls, sinkStored,
                   failures,
                   sessionLog, procVars>>

\* puppeteer.launch() rejects: line 151 / 379 is outside the try
LaunchFail ==
    /\ execPc = "launch"
    /\ failures < MaxFailures
    /\ failures' = failures + 1
    /\ browser' = "none"
    /\ execPc' = "rejected"
    /\ hardError' = "puppeteer.launch"
    /\ UNCHANGED <<variant, startUrl, maxDepth, convexUrl, baseDomain, summary,
                   visited, results, errors, sinkCalls, sinkStored, tasks,
                   sessionLog, procVars>>

\* a finally block that runs while the crawl is still going on
ExecuteFinallyEarly ==
    /\ execPc = "crawl"
    /\ execPc' = "browserClose"
    /\ browser' = "closing"
    /\ sessionLog' = Append(sessionLog, "close")
    /\ UNCHANGED <<variant, startUrl, maxDepth, convexUrl, baseDomain,
                   hardError, summary, visited, results, errors, sinkCalls,
                   sinkStored, tasks, failures, procVars>>

\* the crawlPage promise of the start URL settles (or the call returned at
\* line 59 / 63): the finally block calls browser.close()
ExecuteFinally ==
    /\ execPc = "crawl"
    /\ Len(tasks) > 0 => Settled(tasks[1])
    /\ execPc' = "browserClose"
    /\ browser' = "closing"
    /\ sessionLog' = Append(sessionLog, "close")
    /\ UNCHANGED <<variant, startUrl, maxDepth, convexUrl, baseDomain,
                   hardError, summary, visited, results, errors, sinkCalls,
                   sinkStored, tasks, failures, procVars>>

\* a page count taken from the visited set in both variants
totalPagesVisited == Cardinality(visited)

\* summary.totalPages: results.length (line 164) or visited.size (line 391)
totalPages ==
    IF variant = "memory" THEN Len(results) ELSE Cardinality(visited)

\* browser.close() fulfils: execute returns (lines 160-168 / 388-395) or
\* rethrows the rejection of crawlPage
BrowserCloseOk ==
    /\ execPc = "browserClose"
    /\ browser' = "closed"
    /\ IF Len(tasks) > 0 /\ tasks[1].pc = "rejected"
       THEN /\ execPc' = "rejected"
            /\ hardError' = "crawlPage"
            /\ UNCHANGED summary
       ELSE /\ execPc' = "returned"
            /\ summary' = [totalPages |-> totalPages,
                           totalErrors |-> Len(errors),
                           crawlDepth |-> maxDepth]
            /\ UNCHANGED hardError
    /\ UNCHANGED <<variant, startUrl, maxDepth, convexUrl, baseDomain,
                   visited, results, errors, sinkCalls, sinkStored, tasks,
                   failures,
                   sessionLog, procVars>>

\* browser.close() rejects inside the finally block
BrowserCloseFail ==
    /\ execPc = "browserClose"
    /\ failures < MaxFailures
    /\ failures' = failures + 1
    /\ execPc' = "rejected"
    /\ hardError' = "browser.close"
    /\ UNCHANGED <<variant, startUrl, maxDepth, convexUrl, baseDomain, summary,
                   browser, visited, results, errors, sinkCalls, sinkStored,
                   tasks,
                   sessionLog, procVars>>

-----------------------------------------------------------------------------
(* crawlPage, lines 68-114 / 297-344: one action per awaited call *)

execState == <<variant, startUrl, maxDepth, convexUrl, baseDomain, execPc,
               hardError, summary, browser, sessionLog, procVars>>

\* errors.push({ url: normalizedUrl, ... }), lines 109-112 / 339-342
PushError(t) == errors' = Append(errors, tasks[t].url)

\* a catch block that pushes the error without closing the page
CatchNoClose(t) ==
    /\ failures < MaxFailures
    /\ failures' = failures + 1
    /\ PushError(t)
    /\ tasks' = [tasks EXCEPT ![t].pc = "fulfilled",
                              ![t].threwAt = tasks[t].pc]
    /\ UNCHANGED <<execState, visited, results, sinkCalls, sinkStored>>

\* an awaited call inside the try rejects while page is set: the catch
\* block calls page.close() (line 108 / 338)
Catch(t) ==
    /\ failures < MaxFailures
    /\ failures' = failures + 1
    /\ tasks' = [tasks EXCEPT ![t].pc = "catchClose",
                              ![t].threwAt = tasks[t].pc,
                              ![t].closeCalls = @ + 1]
    /\ UNCHANGED <<execState, visited, results, errors, sinkCalls, sinkStored>>

\* line 71 / 300: browser.newPage() fulfils
NewPageOk(t) ==
    /\ tasks[t].pc = "newPage"
    /\ tasks' = [tasks EXCEPT ![t].pc = "fetch", ![t].page = "open"]
    /\ UNCHANGED <<execState, visited, results, errors, sinkCalls, sinkStored,
                   failures>>

\* browser.newPage() rejects: page is undefined, the catch block pushes the
\* error at once
NewPageFail(t) ==
    /\ tasks[t].pc = "newPage"
    /\ failures < MaxFailures
    /\ failures' = failures + 1
    /\ PushError(t)
    /\ tasks' = [tasks EXCEPT ![t].pc = "fulfilled", ![t].threwAt = "newPage"]
    /\ UNCHANGED <<execState, visited, results, sinkCalls, sinkStored>>

\* lines 72-83 / 301-312: page.setRequestInterception(true), page.goto()
\* and page.content() are awaited one after the other on the task's own
\* page and share the catch block, so they are one step; all three fulfil,
\* and line 85 / 314 calls page.close()
FetchOk(t) ==
    /\ tasks[t].pc = "fetch"
    /\ tasks' = [tasks EXCEPT ![t].pc = "close", ![t].closeCalls = @ + 1]
    /\ UNCHANGED <<execState, visited, results, errors, sinkCalls, sinkStored,
                   failures>>

\* one of the three rejects (interception setup, navigation error or the
\* 30 s timeout, content read)
FetchFail(t) ==
    /\ tasks[t].pc = "fetch"
    /\ Catch(t)

\* a page.close() continuation that does not await the sink write before
\* the fan-out
CloseOkNoAwait(t) ==
    /\ tasks[t].pc = "close"
    /\ LET text   == cleanText(Html(tasks[t].url))
           closed == [tasks EXCEPT ![t].page = "closed"]
           st     == FanOut(t, [visited |-> visited, tasks |-> closed])
       IN  /\ sinkCalls' = IF Len(text) > 0 /\ variant = "remote"
                           THEN sinkCalls (+) SetToBag({tasks[t].url})
                           ELSE sinkCalls
           /\ results' = IF Len(text) > 0 /\ variant = "memory"
                         THEN Append(results, tasks[t].url)
                         ELSE results
           /\ visited' = st.visited
           /\ tasks' = st.tasks
    /\ UNCHANGED <<execState, errors, sinkStored, failures>>

\* a page.close() continuation that returns when the cleaned text is empty
CloseOkSkipEmpty(t) ==
    /\ tasks[t].pc = "close"
    /\ LET text   == cleanText(Html(tasks[t].url))
           closed == [tasks EXCEPT ![t].page = "closed"]
           st     == FanOut(t, [visited |-> visited, tasks |-> closed])
       IN  IF Len(text) = 0
           THEN /\ tasks' = [closed EXCEPT ![t].pc = "fulfilled"]
                /\ UNCHANGED <<visited, results, sinkCalls>>
           ELSE IF variant = "remote"
           THEN /\ sinkCalls' = sinkCalls (+) SetToBag({tasks[t].url})
                /\ tasks' = [closed EXCEPT ![t].pc = "mutation"]
                /\ UNCHANGED <<visited, results>>
           ELSE /\ results' = Append(results, tasks[t].url)
                /\ visited' = st.visited
                /\ tasks' = st.tasks
                /\ UNCHANGED sinkCalls
    /\ UNCHANGED <<execState, errors, sinkStored, failures>>

\* line 85 / 314: page.close() fulfils; lines 87-106 / 316-336 run up to
\* the next await
CloseOk(t) ==
    /\ tasks[t].pc = "close"
    /\ LET text   == cleanText(Html(tasks[t].url))
           closed == [tasks EXCEPT ![t].page = "closed"]
           st     == FanOut(t, [visited |-> visited, tasks |-> closed])
       IN  IF Len(text) > 0 /\ variant = "remote"
           THEN /\ sinkCalls' = sinkCalls (+) SetToBag({tasks[t].url})
                /\ tasks' = [closed EXCEPT ![t].pc = "mutation"]
                /\ UNCHANGED <<visited, results>>
           ELSE /\ results' = IF Len(text) > 0
                              THEN Append(results, tasks[t].url)
                              ELSE results
                /\ visited' = st.visited
                /\ tasks' = st.tasks
                /\ UNCHANGED sinkCalls
    /\ UNCHANGED <<execState, errors, sinkStored, failures>>

CloseFail(t) ==
    /\ tasks[t].pc = "close"
    /\ Catch(t)

\* line 318: ctx.mutation('crawled_pages:add') fulfils; lines 319-336 run
\* up to the next await
MutationOk(t) ==
    /\ tasks[t].pc = "mutation"
    /\ sinkStored' = sinkStored (+) SetToBag({tasks[t].url})
    /\ LET st == FanOut(t, [visited |-> visited, tasks |-> tasks])
       IN  /\ visited' = st.visited
           /\ tasks' = st.tasks
    /\ UNCHANGED <<execState, results, errors, sinkCalls, failures>>

MutationFail(t) ==
    /\ tasks[t].pc = "mutation"
    /\ Catch(t)

\* line 104 / 334: Promise.allSettled(batch) fulfils; i += batchSize and
\* the loop awaits the next batch or ends
AllSettled(t) ==
    /\ tasks[t].pc = "allSettled"
    /\ BatchSettled(t, tasks[t].i)
    /\ tasks' = [tasks EXCEPT
                   ![t].i = @ + batchSize,
                   ![t].pc = IF tasks[t].i + batchSize < tasks[t].nLinks
                             THEN "allSettled" ELSE "fulfilled"]
    /\ UNCHANGED <<execState, visited, results, errors, sinkCalls, sinkStored,
                   failures>>

\* line 108 / 338: page.close() in the catch block fulfils, the error is
\* pushed
CatchCloseOk(t) ==
    /\ tasks[t].pc = "catchClose"
    /\ PushError(t)
    /\ tasks' = [tasks EXCEPT ![t].pc = "fulfilled", ![t].page = "closed"]
    /\ UNCHANGED <<execState, visited, results, sinkCalls, sinkStored,
                   failures>>

\* page.close() in the catch block rejects: crawlPage rejects, line 109 /
\* 339 is not reached
CatchCloseFail(t) ==
    /\ tasks[t].pc = "catchClose"
    /\ failures < MaxFailures
    /\ failures' = failures + 1
    /\ tasks' = [tasks EXCEPT ![t].pc = "rejected"]
    /\ UNCHANGED <<execState, visited, results, errors, sinkCalls, sinkStored>>

-----------------------------------------------------------------------------

Next ==
    \/ ExecuteInvalidStart
    \/ ExecuteNoConvexUrl
    \/ ExecuteLaunch
    \/ LaunchOk
    \/ LaunchFail
    \/ ExecuteFinally
    \/ BrowserCloseOk
    \/ BrowserCloseFail
    \/ \E t \in 1..Len(tasks) :
        \/ NewPageOk(t)
        \/ NewPageFail(t)
        \/ FetchOk(t)
        \/ FetchFail(t)
        \/ CloseOk(t)
        \/ CloseFail(t)
        \/ MutationOk(t)
        \/ MutationFail(t)
        \/ AllSettled(t)
        \/ CatchCloseOk(t)
        \/ CatchCloseFail(t)

Spec == Init /\ [][Next]_vars

\* the runs whose start URL carries a fragment
\* the runs on the part of the site with a short and a long path to /x
ScheduleSpec == InitFor(ScheduleStartUrls, 0..ScheduleMaxDepth) /\ [][Next]_vars

\* the event loop runs every continuation that is ready, and every awaited
\* external call eventually fulfils or rejects (page.goto has a 30 s timeout)
\* the runs whose start URL carries a fragment
FragmentSpec == InitWith(FragmentStartUrls) /\ [][Next]_vars

FairSpec == InitWith(CycleStartUrls) /\ [][Next]_vars /\ WF_vars(Next)

-----------------------------------------------------------------------------
(* processPendingDocumentsTool.execute,                                    *)
(* process_pending_documents_tool.ts lines 58-133: one action per awaited  *)
(* call                                                                     *)

\* the values the pending-page query can return: up to MaxPages pages, each
\* with a text that splitText cuts into 0..MaxChunks chunks
PendingInputs ==
    UNION { [1..n -> 0..MaxChunks] : n \in 0..MaxPages }

\* line 62, lines 11-14: new ConvexClient() throws without CONVEX_URL
ProcessNoConvexUrl ==
    /\ procPc = "start"
    /\ ~convexUrl
    /\ procPc' = "rejected"
    /\ UNCHANGED <<crawlVars, pendingPages, pageIdx, chunkIdx,
                   totalProcessedPages, totalStoredChunks, documents,
                   pageStatus, attempted, procFailures, procResult>>

\* lines 59-73: the clients are made and the pending-page query is called
ProcessQuery ==
    /\ procPc = "start"
    /\ convexUrl
    /\ procPc' = "query"
    /\ UNCHANGED <<crawlVars, pendingPages, pageIdx, chunkIdx,
                   totalProcessedPages, totalStoredChunks, documents,
                   pageStatus, attempted, procFailures, procResult>>

\* line 73: the query rejects, and so does execute
QueryFail ==
    /\ procPc = "query"
    /\ procFailures < MaxProcFailures
    /\ procFailures' = procFailures + 1
    /\ procPc' = "rejected"
    /\ UNCHANGED <<crawlVars, pendingPages, pageIdx, chunkIdx,
                   totalProcessedPages, totalStoredChunks, documents,
                   pageStatus, attempted, procResult>>

\* lines 73-90: the query fulfils with pages; without pages execute returns
\* zeros (lines 75-78), else the loop enters its first try block and calls
\* splitText
QueryOk(pages) ==
    /\ procPc = "query"
    /\ pendingPages' = pages
    /\ IF Len(pages) = 0
       THEN /\ procPc' = "returned"
            /\ procResult' = [totalProcessedPages |-> 0,
                              totalStoredChunks |-> 0]
            /\ UNCHANGED <<pageIdx, attempted>>
       ELSE /\ procPc' = "split"
            /\ pageIdx' = 1
            /\ attempted' = Append(attempted, 1)
            /\ UNCHANGED procResult
    /\ UNCHANGED <<crawlVars, chunkIdx, totalProcessedPages,
                   totalStoredChunks, documents, pageStatus, procFailures>>

\* a catch block that lets the error out of execute
PageCatchRethrow ==
    /\ procFailures < MaxProcFailures
    /\ procFailures' = procFailures + 1
    /\ procPc' = "rejected"
    /\ UNCHANGED <<crawlVars, pendingPages, pageIdx, chunkIdx,
                   totalProcessedPages, totalStoredChunks, documents,
                   pageStatus, attempted, procResult>>

\* lines 113-119: an awaited call of the try block rejects; the catch block
\* calls updateStatus with 'error'
PageCatch ==
    /\ procFailures < MaxProcFailures
    /\ procFailures' = procFailures + 1
    /\ procPc' = "markError"
    /\ UNCHANGED <<crawlVars, pendingPages, pageIdx, chunkIdx,
                   totalProcessedPages, totalStoredChunks, documents,
                   pageStatus, attempted, procResult>>

\* lines 85-90, 124-132: the loop goes on to the next page and calls
\* splitText, or ends and execute returns the totals; total is the value of
\* totalProcessedPages after the current page
NextPage(total) ==
    IF pageIdx < Len(pendingPages)
    THEN /\ pageIdx' = pageIdx + 1
         /\ attempted' = Append(attempted, pageIdx + 1)
         /\ procPc' = "split"
         /\ UNCHANGED procResult
    ELSE /\ procPc' = "returned"
         /\ procResult' = [totalProcessedPages |-> total,
                           totalStoredChunks |-> totalStoredChunks]
         /\ UNCHANGED <<pageIdx, attempted>>

\* lines 90-96 / 107: splitText fulfils; with chunks embedQuery is called
\* for the first one, without chunks updateStatus 'processed' is called
SplitOk ==
    /\ procPc = "split"
    /\ IF pendingPages[pageIdx] > 0
       THEN /\ chunkIdx' = 1
            /\ procPc' = "embed"
       ELSE /\ procPc' = "markProcessed"
            /\ UNCHANGED chunkIdx
    /\ UNCHANGED <<crawlVars, pendingPages, pageIdx, totalProcessedPages,
                   totalStoredChunks, documents, pageStatus, attempted,
                   procFailures, procResult>>

\* line 90: splitText rejects (page.text is not a string, say)
SplitFail ==
    /\ procPc = "split"
    /\ PageCatch

\* lines 96-97: embedQuery fulfils, the documents:add mutation is called
EmbedOk ==
    /\ procPc = "embed"
    /\ procPc' = "add"
    /\ UNCHANGED <<crawlVars, pendingPages, pageIdx, chunkIdx,
                   totalProcessedPages, totalStoredChunks, documents,
                   pageStatus, attempted, procFailures, procResult>>

\* line 96: embedQuery rejects
EmbedFail ==
    /\ procPc = "embed"
    /\ PageCatch

\* lines 97-107: documents:add fulfils; the loop goes on to the next chunk,
\* or ends: totalStoredChunks += chunks.length and updateStatus
\* 'processed' is called
AddOk ==
    /\ procPc = "add"
    /\ documents' = Append(documents, <<pageIdx, chunkIdx>>)
    /\ IF chunkIdx < pendingPages[pageIdx]
       THEN /\ chunkIdx' = chunkIdx + 1
            /\ procPc' = "embed"
            /\ UNCHANGED totalStoredChunks
       ELSE /\ totalStoredChunks' = totalStoredChunks + pendingPages[pageIdx]
            /\ procPc' = "markProcessed"
            /\ UNCHANGED chunkIdx
    /\ UNCHANGED <<crawlVars, pendingPages, pageIdx, totalProcessedPages,
                   pageStatus, attempted, procFailures, procResult>>

\* line 97: documents:add rejects
AddFail ==
    /\ procPc = "add"
    /\ PageCatch

\* lines 107-111: updateStatus 'processed' fulfils, totalProcessedPages++
MarkProcessedOk ==
    /\ procPc = "markProcessed"
    /\ pageStatus' = Append(pageStatus, <<pageIdx, "processed">>)
    /\ totalProcessedPages' = totalProcessedPages + 1
    /\ NextPage(totalProcessedPages + 1)
    /\ UNCHANGED <<crawlVars, pendingPages, chunkIdx, totalStoredChunks,
                   documents, procFailures>>

\* line 107: updateStatus 'processed' rejects
MarkProcessedFail ==
    /\ procPc = "markProcessed"
    /\ PageCatch

\* lines 116-119: updateStatus 'error' fulfils
MarkErrorOk ==
    /\ procPc = "markError"
    /\ pageStatus' = Append(pageStatus, <<pageIdx, "error">>)
    /\ NextPage(totalProcessedPages)
    /\ UNCHANGED <<crawlVars, pendingPages, chunkIdx, totalProcessedPages,
                   totalStoredChunks, documents, procFailures>>

\* lines 116-122: updateStatus 'error' rejects; the inner catch logs it
MarkErrorFail ==
    /\ procPc = "markError"
    /\ procFailures < MaxProcFailures
    /\ procFailures' = procFailures + 1
    /\ NextPage(totalProcessedPages)
    /\ UNCHANGED <<crawlVars, pendingPages, chunkIdx, totalProcessedPages,
                   totalStoredChunks, documents, pageStatus>>

ProcessNext ==
    \/ ProcessNoConvexUrl
    \/ ProcessQuery
    \/ QueryFail
    \/ \E pages \in PendingInputs : QueryOk(pages)
    \/ SplitOk
    \/ SplitFail
    \/ EmbedOk
    \/ EmbedFail
    \/ AddOk
    \/ AddFail
    \/ MarkProcessedOk
    \/ MarkProcessedFail
    \/ MarkErrorOk
    \/ MarkErrorFail

\* one run of processPendingDocumentsTool.execute; the crawler is not
\* running, CONVEX_URL is set or not
ProcessInit == InitFor({NotAUrl}, {0}) /\ variant = "remote"

ProcessSpec == ProcessInit /\ [][ProcessNext]_vars

-----------------------------------------------------------------------------
(* Properties *)

TaskIds == 1..Len(tasks)

\* the links found on the page of task t
LinksOf(t) == extractLinks(Html(tasks[t].url), tasks[t].url)

\* number of occurrences of x in the sequence s
Count(x, s) == Cardinality({k \in 1..Len(s) : s[k] = x})

\* number of page records handed over successfully for url x: entries of
\* the result list (in-memory variant) and fulfilled mutations (remote)
PageRecords(x) == Count(x, results) + CopiesIn(x, sinkStored)

\* number of page records handed over successfully
TotalPageRecords == Len(results) + BagCardinality(sinkStored)

InvalidStartMessage == "Invalid start URL provided"

\* C1: every URL in the visited set, and every URL a task fetches, has a
\* domain (hostname without a leading www.) equal to baseDomain; links to
\* other domains and to subdomains are never inserted and never fetched.
C1_VisitedInScope ==
    /\ \A u \in visited : getDomain(u) = baseDomain
    /\ \A t \in TaskIds :
        /\ tasks[t].url \in visited
        /\ StripWww(tasks[t].url.host) = getDomain(startUrl)

\* C1 witness: the crawl returned after a page with a link to a subdomain
\* and a link to a foreign domain fanned out
C1_Witness ==
    /\ execPc = "returned"
    /\ \E t \in TaskIds :
        /\ tasks[t].nLinks > 0
        /\ \E k \in 1..tasks[t].nLinks : LinksOf(t)[k].host = ShopExampleCom
        /\ \E k \in 1..tasks[t].nLinks : LinksOf(t)[k].host = OtherCom

\* C2: no task runs and no URL is inserted at a depth above maxDepth, a
\* page at depth = maxDepth schedules no child, and with maxDepth = 0 only
\* the start URL is fetched and at most one page record is produced.
C2_DepthBound ==
    /\ \A t \in TaskIds :
        /\ tasks[t].depth <= maxDepth
        /\ tasks[t].depth = maxDepth =>
              /\ tasks[t].nLinks = 0
              /\ \A c \in TaskIds : tasks[c].parent # t
    /\ visited = {tasks[t].url : t \in TaskIds}
    /\ maxDepth = 0 =>
          /\ Len(tasks) <= 1
          /\ visited \subseteq {Href(startUrl)}
          /\ TotalPageRecords <= 1
          /\ BagCardinality(sinkCalls) <= 1

\* C2 witness: a page at depth = maxDepth that has links was fetched and
\* its task fulfilled
C2_Witness ==
    \E t \in TaskIds :
        /\ tasks[t].depth = maxDepth
        /\ tasks[t].pc = "fulfilled"
        /\ tasks[t].threwAt = ""
        /\ Len(LinksOf(t)) > 0

\* C3: no URL occurs twice in the page records and crawl errors taken
\* together, and no URL is fetched by two tasks (so a URL whose fetch
\* failed is not fetched again when it is discovered again).
C3_NoDuplicates ==
    /\ \A u \in visited : PageRecords(u) + Count(u, errors) <= 1
    /\ \A k \in 1..Len(results) : results[k] \in visited
    /\ \A k \in 1..Len(errors) : errors[k] \in visited
    /\ BagToSet(sinkStored) \subseteq visited
    /\ \A t1, t2 \in TaskIds : tasks[t1].url = tasks[t2].url => t1 = t2

\* C3 witness: the crawl returned, and a fulfilled task found a link to a
\* URL whose fetch failed
C3_Witness ==
    /\ execPc = "returned"
    /\ \E t \in TaskIds :
        /\ tasks[t].pc = "fulfilled"
        /\ \E k \in 1..tasks[t].nLinks : Count(Href(LinksOf(t)[k]), errors) = 1

\* C4 (as claimed): a returned summary has totalPages + totalErrors at
\* most the size of the visited set, in both variants.
C4_SummaryWithinVisited ==
    execPc = "returned" =>
        summary.totalPages + summary.totalErrors <= Cardinality(visited)

\* the steps that open, render and read a page
FetchStages == {"newPage", "fetch"}

\* C5 (as claimed): a task whose page open or fetch (interception setup,
\* navigation, content read) failed never rejects, and once settled has exactly one
\* crawl error for its URL.
C5_FailureIsolated ==
    \A t \in TaskIds :
        tasks[t].threwAt \in FetchStages =>
            /\ tasks[t].pc # "rejected"
            /\ Settled(tasks[t]) => Count(tasks[t].url, errors) = 1

\* C6 (as claimed): with a valid start URL (and CONVEX_URL set) the
\* invocation never rejects; the only hard error is the precondition error.
C6_OnlyPreconditionRejects ==
    (execPc = "rejected" /\ convexUrl) => hardError = InvalidStartMessage

\* C7: when the domain of the start URL is empty, the invocation rejects
\* with the precondition error and nothing else has happened: no session
\* was launched, no task exists, the visited set and all lists are empty.
C7_PreconditionBeforeLaunch ==
    getDomain(startUrl) = <<>> =>
        /\ execPc \in {"start", "rejected"}
        /\ execPc = "rejected" => hardError = InvalidStartMessage
        /\ browser = "none"
        /\ visited = {}
        /\ tasks = <<>>
        /\ results = <<>>
        /\ errors = <<>>
        /\ sinkCalls = EmptyBag

\* C7 witness: the invocation rejected with the precondition error
C7_Witness ==
    /\ execPc = "rejected"
    /\ hardError = InvalidStartMessage
    /\ ~Parses(startUrl)

\* C8 (as claimed): a summary returned after the fetch of the start URL
\* failed has totalPages = 0 and totalErrors = 1, and its single error names
\* the normalized start URL, in both variants.
C8_StartFetchFails ==
    (execPc = "returned" /\ tasks[1].threwAt \in FetchStages) =>
        /\ summary.totalPages = 0
        /\ summary.totalErrors = 1
        /\ errors = <<Href(startUrl)>>

\* the batch a link position belongs to
BatchOf(idx) == (idx - 1) \div batchSize

\* C9 (as claimed): a child of a later batch of a parent is dispatched only
\* when every child of the earlier batches of that parent has settled.
C9_BatchOrder ==
    \A c1, c2 \in TaskIds :
        (/\ tasks[c1].parent # 0
         /\ tasks[c1].parent = tasks[c2].parent
         /\ BatchOf(tasks[c1].idx) < BatchOf(tasks[c2].idx))
            => Settled(tasks[c1])

\* the children of task p that are dispatched and not settled
InFlight(p) == {c \in TaskIds : tasks[c].parent = p /\ ~Settled(tasks[c])}

\* C10 (as claimed): at most batchSize children of one parent are in
\* flight at any time.
C10_PeakConcurrency ==
    \A p \in TaskIds : Cardinality(InFlight(p)) <= batchSize

Finished == execPc \in {"returned", "rejected"}

\* C11: with every ready continuation eventually run and every external call
\* eventually settling, the invocation terminates: execute returns or
\* rejects, and by then every crawlPage task has settled, cycles in the
\* link graph included.
C11_Terminates ==
    <>[](Finished /\ \A t \in TaskIds : tasks[t].pc \in {"fulfilled", "rejected"})

\* C11 witness: execute returned after a crawl in which a page of the cycle
\* /p -> /q -> /p found the start page again
C11_Witness ==
    /\ execPc = "returned"
    /\ \E t \in TaskIds :
        /\ tasks[t].depth > 0
        /\ tasks[t].pc = "fulfilled"
        /\ \E k \in 1..tasks[t].nLinks : Href(LinksOf(t)[k]) = Href(startUrl)

\* the calls crawlPage made by task t that passed line 65
ChildrenOf(t) == {c \in TaskIds : tasks[c].parent = t}

C13_SessionOnce ==
    /\ sessionLog \in {<<>>, <<"launch">>, <<"launch", "close">>}
    /\ (Finished /\ hardError # "puppeteer.launch" /\ sessionLog # <<>>)
           => sessionLog = <<"launch", "close">>
    /\ (InSeq("close", sessionLog) \/ browser \in {"closing", "closed"})
           => \A t \in TaskIds : Settled(tasks[t])

\* C13 witness: execute ended after a crawl of several tasks of which one
\* failed, and the session was launched once and closed once
C13_Witness ==
    /\ Finished
    /\ browser = "closed"
    /\ sessionLog = <<"launch", "close">>
    /\ Len(tasks) >= 3
    /\ \E t \in TaskIds : tasks[t].threwAt # ""

\* C14: two URLs that differ only by their fragment share one dedup key, so
\* no two crawlPage tasks fetch URLs that are equal up to the fragment, also
\* when the start URL has a fragment
C14_FragmentFreeKeys ==
    \A t1, t2 \in TaskIds :
        StripFragment(tasks[t1].url) = StripFragment(tasks[t2].url) => t1 = t2

\* C15, for one run: the in-memory sink cannot fail, so if both variants
\* perform the same traversal then in either variant a settled task whose
\* page was opened, fetched and closed without a failure has no crawl error
\* and, below maxDepth, has dispatched the links of its page, whatever the
\* sink's write did
C15_SameTraversal ==
    \A t \in TaskIds :
        (Settled(tasks[t]) /\ tasks[t].threwAt \notin (FetchStages \cup {"close"}))
            => /\ ~InSeq(tasks[t].url, errors)
               /\ ShouldFanOut(tasks[t].depth, maxDepth)
                      => tasks[t].nLinks = Len(LinksOf(t))

\* C16: every URL whose crawlPage call is past the duplicate check (its
\* page is being opened, is open, or its fetch is in flight) is in visited
C16_VisitedBeforeFetch ==
    \A t \in TaskIds :
        (tasks[t].pc \in {"newPage", "fetch", "close", "catchClose"}
         \/ tasks[t].page = "open")
            => tasks[t].url \in visited

\* C16 witness: the fetch of a discovered link is in flight on an open page
C16_Witness ==
    \E t \in TaskIds :
        /\ tasks[t].depth > 0
        /\ tasks[t].pc = "fetch"
        /\ tasks[t].page = "open"

\* two crawlPage tasks fetch the same URL
DoubleFetch ==
    \E t1, t2 \in TaskIds : t1 # t2 /\ tasks[t1].url = tasks[t2].url

\* two pages that were fetched concurrently as links of the same batch both
\* have a link to the URL of a task one of them dispatched
ConcurrentDiscovery ==
    \E t1, t2 \in TaskIds :
        /\ t1 # t2
        /\ tasks[t1].parent = tasks[t2].parent
        /\ BatchOf(tasks[t1].idx) = BatchOf(tasks[t2].idx)
        /\ tasks[t1].nLinks > 0
        /\ tasks[t2].nLinks > 0
        /\ \E c \in TaskIds :
            /\ tasks[c].parent \in {t1, t2}
            /\ InSeq(tasks[c].url, LinksOf(t1))
            /\ InSeq(tasks[c].url, LinksOf(t2))

\* C17 as stated: a crawl in which two concurrent branches discover the same
\* URL reaches a state in which that URL is fetched by two tasks
C17_RaceReached == (<>ConcurrentDiscovery) => <>DoubleFetch

\* C17, amended: the race is not reachable; every URL in visited is fetched
\* by exactly one task, also when two concurrent branches discover it
C17_NoDoubleFetch ==
    /\ ~DoubleFetch
    /\ \A u \in visited : Cardinality({t \in TaskIds : tasks[t].url = u}) = 1

\* C17 witness: two pages that were fetched concurrently as links of the
\* same batch both have a link to the same URL, and one task fetches it
C17_Witness ==
    /\ ConcurrentDiscovery
    /\ execPc = "returned"

\* C18: a settled task whose page open or fetch failed has exactly one
\* crawl error and no page record, extracted and dispatched no link, and
\* its URL is in visited
C18_FetchFailure ==
    \A t \in TaskIds :
        (Settled(tasks[t]) /\ tasks[t].threwAt \in FetchStages)
            => /\ Count(tasks[t].url, errors) = 1
               /\ PageRecords(tasks[t].url) = 0
               /\ tasks[t].nLinks = 0
               /\ ChildrenOf(t) = {}
               /\ tasks[t].url \in visited

\* the page of task t was fetched and closed and its cleaned text is empty
EmptyTextPage(t) ==
    /\ tasks[t].pc \in {"allSettled", "fulfilled"}
    /\ tasks[t].threwAt = ""
    /\ tasks[t].page = "closed"
    /\ Len(cleanText(Html(tasks[t].url))) = 0

\* C19: a page that was fetched and has empty cleaned text has no page
\* record, no sink call and no crawl error, its URL is in visited, and below
\* maxDepth every link on it was passed to crawlPage at depth + 1 (the links
\* in scope are in visited, the tasks made for them are at depth + 1)
C19_EmptyText ==
    \A t \in TaskIds :
        EmptyTextPage(t)
            => /\ PageRecords(tasks[t].url) = 0
               /\ CopiesIn(tasks[t].url, sinkCalls) = 0
               /\ ~InSeq(tasks[t].url, errors)
               /\ tasks[t].url \in visited
               /\ ShouldFanOut(tasks[t].depth, maxDepth)
                      => /\ tasks[t].nLinks = Len(LinksOf(t))
                         /\ \A k \in 1..Len(LinksOf(t)) :
                               InScope(LinksOf(t)[k], baseDomain)
                                   => LinksOf(t)[k] \in visited
                         /\ \A c \in ChildrenOf(t) :
                               tasks[c].depth = tasks[t].depth + 1

\* C19 witness: a page with empty text below maxDepth fulfilled, and a link
\* found on it is fetched by a task at depth + 1
C19_Witness ==
    \E t \in TaskIds :
        /\ EmptyTextPage(t)
        /\ tasks[t].pc = "fulfilled"
        /\ \E c \in ChildrenOf(t) :
            /\ tasks[c].depth = tasks[t].depth + 1
            /\ InSeq(tasks[c].url, LinksOf(t))

\* C20 as stated: in both variants the returned summary has totalPages equal
\* to the size of visited and totalErrors equal to the length of errors
C20_SummaryFromVisited ==
    execPc = "returned"
        => /\ summary.totalPages = Cardinality(visited)
           /\ summary.totalErrors = Len(errors)

\* C20, amended: the returned summary has totalErrors equal to the length
\* of errors in both variants; totalPages is the length of results in the
\* in-memory variant and the size of visited in the remote-sink variant
C20_SummaryDerived ==
    execPc = "returned"
        => /\ summary.totalErrors = Len(errors)
           /\ variant = "memory" => summary.totalPages = Len(results)
           /\ variant = "remote" => summary.totalPages = Cardinality(visited)
           /\ summary.crawlDepth = maxDepth

\* C20 witness: the in-memory variant returned a page count below the size
\* of visited, together with the count of a failed page
C20_Witness ==
    /\ execPc = "returned"
    /\ variant = "memory"
    /\ summary.totalPages < Cardinality(visited)
    /\ summary.totalPages > 0
    /\ summary.totalErrors > 0

\* the in-scope URLs the links of the page at u name
LinkTargets(u) ==
    LET links == extractLinks(Html(u), u)
    IN  { Href(links[k]) : k \in { j \in 1..Len(links) :
                                     InScope(Href(links[j]), getDomain(startUrl)) } }

\* the URLs within link distance k of the URLs in S
RECURSIVE ReachWithin(_, _)
ReachWithin(S, k) ==
    IF k = 0 THEN S
    ELSE ReachWithin(S \cup UNION { LinkTargets(u) : u \in S }, k - 1)

\* C21: when execute returns after a crawl in which no call failed, visited
\* is the set of in-scope URLs whose shortest link distance from the start
\* URL is at most maxDepth, whatever the order in which the fetches finished
C21_ScheduleIndependent ==
    (execPc = "returned" /\ failures = 0)
        => visited = ReachWithin({Href(startUrl)}, maxDepth)

\* the page of task t has text to record
HasText(t) == Len(cleanText(Html(tasks[t].url))) > 0

\* C22: when a link of a page with text has been dispatched, the page has
\* been handed to the sink: in the in-memory variant it is in results, ahead
\* of every page first discovered through it, and in the remote-sink variant
\* its crawled_pages:add mutation has fulfilled
C22_RecordBeforeDispatch ==
    \A c \in TaskIds :
        LET p == tasks[c].parent
        IN  (p > 0 /\ HasText(p))
                => IF variant = "memory"
                   THEN /\ InSeq(tasks[p].url, results)
                        /\ \A i \in 1..Len(results) :
                              results[i] = tasks[c].url
                                  => \E j \in 1..(i - 1) :
                                        results[j] = tasks[p].url
                   ELSE CopiesIn(tasks[p].url, sinkStored) >= 1

\* C22 witness: in the remote-sink variant the fetch of a link is in flight
\* and the mutation of the page it was found on has fulfilled
C22_Witness ==
    /\ variant = "remote"
    /\ \E c \in TaskIds :
        /\ tasks[c].parent > 0
        /\ tasks[c].pc = "fetch"
        /\ HasText(tasks[c].parent)
        /\ CopiesIn(tasks[tasks[c].parent].url, sinkStored) = 1

\* C23: a settled task that opened a page called page.close() exactly once
\* (the tasks whose first page.close() rejected, which call it again in the
\* catch block, are left aside)
C23_OneCloseCall ==
    \A t \in TaskIds :
        (Settled(tasks[t]) /\ tasks[t].page # "none" /\ tasks[t].threwAt # "close")
            => tasks[t].closeCalls = 1

\* the pages whose updateStatus mutation with status st fulfilled
PagesMarked(st) ==
    { pageStatus[i][1] : i \in { j \in 1..Len(pageStatus) : pageStatus[j][2] = st } }

\* C24: processPendingDocumentsTool.execute rejects only before the loop
\* (no client, or the query rejected); the pages are attempted in the order
\* of pendingPages and all of them when execute returns; no page has two
\* fulfilled status updates; a page marked 'processed' has all its chunks in
\* documents; totalProcessedPages is the number of pages marked 'processed'
C24_PageFailuresContained ==
    /\ procPc = "rejected" => (pageIdx = 0 /\ attempted = <<>>)
    /\ attempted = [k \in 1..pageIdx |-> k]
    /\ procPc = "returned" => pageIdx = Len(pendingPages)
    /\ \A i, j \in 1..Len(pageStatus) :
          pageStatus[i][1] = pageStatus[j][1] => i = j
    /\ \A k \in PagesMarked("processed") :
          \A c \in 1..pendingPages[k] : InSeq(<<k, c>>, documents)
    /\ totalProcessedPages = Cardinality(PagesMarked("processed"))
    /\ procPc = "returned"
          => procResult.totalProcessedPages = Cardinality(PagesMarked("processed"))

\* C24 witness: execute returned after two pages; a call failed for the
\* first, which was marked 'error', and the second was stored and marked
\* 'processed'
C24_Witness ==
    /\ procPc = "returned"
    /\ pageStatus = << <<1, "error">>, <<2, "processed">> >>
    /\ pendingPages[2] > 0
    /\ procResult.totalProcessedPages = 1

\* the number of chunks of the pages in S
RECURSIVE ChunksOf(_)
ChunksOf(S) ==
    IF S = {} THEN 0
    ELSE LET k == CHOOSE x \in S : TRUE
         IN  pendingPages[k] + ChunksOf(S \ {k})

\* C25: the totalStoredChunks that execute returns is the number of
\* documents:add mutations that fulfilled, and counts only chunks of pages
\* that are marked 'processed'
C25_StoredChunksCount ==
    procPc = "returned"
        => /\ procResult.totalStoredChunks = Len(documents)
           /\ procResult.totalStoredChunks = ChunksOf(PagesMarked("processed"))

====
